---- MODULE Spec2Model ----
(***************************************************************************)
(* State-machine model of napcat_client.client.NapCatWebSocketClient.      *)
(*                                                                         *)
(* The client runs on one asyncio event loop: every action below is the    *)
(* code one task executes between two suspension points (an await that     *)
(* really suspends).  The gateway is the environment: it sends frames and  *)
(* may close the connection.                                               *)
(***************************************************************************)
EXTENDS Integers, Sequences, FiniteSets, TLC

(* ---------------------------- bounds ----------------------------------- *)
MaxCalls == 2      \* send_action calls issued in one behaviour
MaxFrames == 2     \* frames the gateway sends in one behaviour
MaxInbox == 2      \* frames buffered by the transport, not yet read
MaxRegs == 1       \* callbacks the application registers (all categories)
MaxSegs == 3       \* segments of a message chain

Calls == 1..MaxCalls
Tokens == 1..MaxCalls          \* echo values produced by uuid4
NoEcho == 0                    \* data.get("echo") of a frame without an echo
Bogus == MaxCalls + 1          \* an echo value no call ever generated
Absent == "absent"             \* any other key that is missing from a frame

Categories == {"group", "private", "notice", "napcat", "meta"}
\* the categories in which the application registers callbacks of its own
\* (run() registers the callbacks of "meta" and "napcat")
UserCategories == {"group", "private", "notice"}

\* callbacks of the application: one that returns, one that raises and one
\* that calls send_action and awaits the response
UserCallbacks == {"user_callback", "raising_callback", "sending_callback"}

NoFrame == [id |-> 0, parse |-> "none", echo |-> NoEcho, post_type |-> Absent,
            message_type |-> Absent, meta_event_type |-> Absent,
            status |-> Absent, retcode |-> 0, user_id |-> Absent]

VARIABLES
  websocket,            \* self.websocket: "none" | "open" | "closed" | "broken"
  response_futures,     \* self.response_futures: echo -> the call owning the future
  future,               \* the asyncio.Future created by each send_action call
  shutdown_event,       \* self.shutdown_event
  login_success_event,  \* self.login_success_event
  listening_task,       \* self._listening_task: "none" | "created" | "running" |
                        \*   "spinning" | "cancelling" | "cancelled" | "finished"
  event_callbacks,      \* self.event_callbacks: category -> list of callbacks
  callPc,               \* position of each send_action call
  callEcho,             \* the echo each call generated
  callOwner,            \* who issued the call: "run" | "user" | "callback"
  wire,                 \* echoes of the request frames that reached the gateway
  inbox,                \* ids of the frames buffered by the transport, oldest first
  nframes,              \* number of frames received so far
  tasks,                \* tasks created by handle_message, in creation order:
                        \*   the callback, its frame, its position and the
                        \*   send_action call it awaits (0: none)
  dispatched,           \* the frame most recently given to handle_message
  runPc,                \* position of run()
  userClosePc,          \* position of a close() called by the application
  nregs,                \* callbacks registered by the application
  msg_seg_list,         \* QQMessageChain.msg_seg_list: the segments of a chain
  msg_list,             \* the list to_list() returned for that chain
  chainPc               \* "built" | "listed": whether to_list() was called

vars == <<websocket, response_futures, future, shutdown_event,
          login_success_event, listening_task, event_callbacks, callPc,
          callEcho, callOwner, wire, inbox, nframes, tasks, dispatched,
          runPc, userClosePc, nregs, msg_seg_list, msg_list, chainPc>>

clientVars == <<websocket, shutdown_event, login_success_event, listening_task>>
callVars == <<callPc, callEcho, callOwner>>
rpcVars == <<response_futures, future>>
netVars == <<inbox, nframes>>
chainVars == <<msg_seg_list, msg_list, chainPc>>

(* ---------------------------- helpers ---------------------------------- *)
\* dict.pop(key): the table without the key
Pop(table, key) == [k \in DOMAIN table \ {key} |-> table[k]]

\* dict[key] = value
Put(table, key, value) ==
  [k \in DOMAIN table \cup {key} |-> IF k = key THEN value ELSE table[k]]

\* asyncio.Task.done()
TaskDone(t) == t \in {"finished", "cancelled"}

\* `self._listening_task and not self._listening_task.done()`
Cancellable(t) == t # "none" /\ ~TaskDone(t)

Remove(s, i) == SubSeq(s, 1, i - 1) \o SubSeq(s, i + 1, Len(s))

\* the event loop gets to run tasks and timers: the listening task is not
\* iterating a closed connection without ever suspending (see ListenSpin)
LoopRuns == listening_task # "spinning"

ClientInit ==
  /\ websocket = "none"
  /\ response_futures = << >>
  /\ future = [c \in Calls |-> [state |-> "none", result |-> NoFrame]]
  /\ shutdown_event = FALSE
  /\ login_success_event = FALSE
  /\ listening_task = "none"
  /\ event_callbacks = [k \in Categories |-> << >>]
  /\ callPc = [c \in Calls |-> "idle"]
  /\ callEcho = [c \in Calls |-> NoEcho]
  /\ callOwner = [c \in Calls |-> "nobody"]
  /\ wire = {}
  /\ inbox = << >>
  /\ nframes = 0
  /\ tasks = << >>
  /\ dispatched = NoFrame
  /\ runPc = "init"
  /\ userClosePc = "idle"
  /\ nregs = 0

\* NapCatWebSocketClient() and no message chain in the making
Init ==
  /\ ClientInit
  /\ msg_seg_list = << >>
  /\ msg_list = << >>
  /\ chainPc = "built"

(* ------------------- subscription decorators --------------------------- *)
\* group_event / private_event / notice_event / napcat_event / meta_event
RegisterCallback(cat, func) ==
  [event_callbacks EXCEPT ![cat] = Append(@, func)]

Register(cat, func) ==
  /\ runPc = "init"
  /\ nregs < MaxRegs
  /\ nregs' = nregs + 1
  /\ event_callbacks' = RegisterCallback(cat, func)
  /\ UNCHANGED <<chainVars, clientVars, rpcVars, callVars, wire, netVars, tasks,
                 dispatched, runPc, userClosePc>>

(* --------------------------- send_action ------------------------------- *)
Started(c) == callPc[c] # "idle"
IssuedEchoes == {callEcho[c] : c \in {d \in Calls : Started(d)}}

\* the outcome of `await self.response_futures.pop(echo, None)`:
\* pop gives None when the echo is gone, else the future stored under it
AwaitPopped(table, futs, echo) ==
  IF echo \notin DOMAIN table
  THEN "TypeError"                       \* await None
  ELSE LET f == futs[table[echo]]
       IN  CASE f.state = "pending"   -> "hung"            \* nobody can set it
             [] f.state = "cancelled" -> "CancelledError"
             [] OTHER                 -> "completed"

\* except asyncio.TimeoutError: await pop; raise TimeoutError(action)
TimeoutHandler(table, futs, echo) ==
  IF AwaitPopped(table, futs, echo) = "completed"
  THEN "TimeoutError"
  ELSE AwaitPopped(table, futs, echo)

\* except Exception: await pop; raise
ErrorHandler(table, futs, echo) ==
  IF AwaitPopped(table, futs, echo) = "completed"
  THEN "SendError"
  ELSE AwaitPopped(table, futs, echo)

\* uuid4 gives an echo no other call has; which one is immaterial
NewEcho == CHOOSE e \in Tokens \ IssuedEchoes :
             \A x \in Tokens \ IssuedEchoes : e <= x

\* echo = uuid4(); future = Future(); response_futures[echo] = future;
\* await self.websocket.send(...).  On an open connection the frame is
\* written and the call suspends in wait_for.  With self.websocket = None
\* the attribute lookup raises, on a closed connection send raises, and
\* the `except Exception` handler runs.
SendActionBegin(c, owner, ws) ==
  /\ callPc[c] = "idle"
  /\ \A d \in Calls : d < c => Started(d)
  /\ LET e == NewEcho
         futs == [future EXCEPT ![c] = [state |-> "pending", result |-> NoFrame]]
         registered == Put(response_futures, e, c)
     IN  /\ callEcho' = [callEcho EXCEPT ![c] = e]
         /\ future' = futs
         /\ callOwner' = [callOwner EXCEPT ![c] = owner]
         /\ IF ws = "open"
            THEN /\ response_futures' = registered
                 /\ wire' = wire \cup {e}
                 /\ callPc' = [callPc EXCEPT ![c] = "waiting"]
            ELSE /\ response_futures' = Pop(registered, e)
                 /\ wire' = wire
                 /\ callPc' = [callPc EXCEPT ![c] = ErrorHandler(registered, futs, e)]

\* send_action called by application code (any task, at any time); one
\* call is left for the get_login_info of run()
UserSendAction(c) ==
  /\ LoopRuns
  /\ runPc \in {"init", "connecting"} => c < MaxCalls
  /\ SendActionBegin(c, "user", websocket)
  /\ UNCHANGED <<chainVars, clientVars, event_callbacks, netVars, tasks,
                 dispatched, runPc, userClosePc, nregs>>

\* wait_for returns the future's result: return response
SendActionReturn(c) ==
  /\ LoopRuns
  /\ callPc[c] = "waiting"
  /\ future[c].state = "done"
  /\ callPc' = [callPc EXCEPT ![c] = "returned"]
  /\ UNCHANGED <<chainVars, clientVars, rpcVars, callEcho, callOwner, event_callbacks,
                 wire, netVars, tasks, dispatched, runPc, userClosePc, nregs>>

\* the timeout of wait_for expires: it cancels the future it waits on and
\* the call's task is scheduled to resume with TimeoutError
Timeout(c) ==
  /\ LoopRuns
  /\ callPc[c] = "waiting"
  /\ future[c].state = "pending"
  /\ future' = [future EXCEPT ![c].state = "cancelled"]
  /\ callPc' = [callPc EXCEPT ![c] = "timedout"]
  /\ UNCHANGED <<chainVars, clientVars, response_futures, callEcho, callOwner,
                 event_callbacks, wire, netVars, tasks, dispatched, runPc,
                 userClosePc, nregs>>

\* mutant: the handler raises without removing the entry
TimeoutResume_NoPop(c) ==
  /\ LoopRuns
  /\ callPc[c] = "timedout"
  /\ callPc' = [callPc EXCEPT ![c] = TimeoutHandler(response_futures, future, callEcho[c])]
  /\ UNCHANGED <<chainVars, clientVars, rpcVars, callEcho, callOwner, event_callbacks,
                 wire, netVars, tasks, dispatched, runPc, userClosePc, nregs>>

\* the call's task resumes in `except asyncio.TimeoutError`
TimeoutResume(c) ==
  /\ LoopRuns
  /\ callPc[c] = "timedout"
  /\ callPc' = [callPc EXCEPT ![c] = TimeoutHandler(response_futures, future, callEcho[c])]
  /\ response_futures' = Pop(response_futures, callEcho[c])
  /\ UNCHANGED <<chainVars, clientVars, future, callEcho, callOwner, event_callbacks,
                 wire, netVars, tasks, dispatched, runPc, userClosePc, nregs>>

\* the call has raised or returned to its caller
Terminated(c) ==
  callPc[c] \in {"returned", "CancelledError", "TypeError", "TimeoutError",
                 "SendError"}

(* ------------------------------ gateway -------------------------------- *)
Event(pt, mt, met) ==
  [parse |-> "object", echo |-> NoEcho, post_type |-> pt, message_type |-> mt,
   meta_event_type |-> met, status |-> Absent, retcode |-> 0, user_id |-> Absent]

Status(st, rc, uid) ==
  [parse |-> "object", echo |-> NoEcho, post_type |-> Absent,
   message_type |-> Absent, meta_event_type |-> Absent, status |-> st,
   retcode |-> rc, user_id |-> uid]

Unparsed(kind) ==
  [parse |-> kind, echo |-> NoEcho, post_type |-> Absent,
   message_type |-> Absent, meta_event_type |-> Absent, status |-> Absent,
   retcode |-> 0, user_id |-> Absent]

EventBodies ==
  { Event("message", "group", Absent), Event("message", "private", Absent),
    Event("message", "other", Absent), Event("notice", Absent, Absent),
    Event("meta_event", Absent, "lifecycle"),
    Event("meta_event", Absent, "heartbeat"),
    Event("request", Absent, Absent) }

StatusBodies ==
  { Status("failed", 1403, Absent), Status("failed", 1400, Absent) }

\* bodies of frames that carry an echo: the response to get_login_info with
\* the configured or with another account, and an event
EchoBodies ==
  { Status("ok", 0, "self"), Status("ok", 0, "other"),
    Event("message", "group", Absent) }

\* text frames the gateway can send: events and status frames without an
\* echo, frames with the echo of a request it received or with an echo
\* nobody issued, text that is not JSON, and JSON that is not an object
FrameBodies ==
  EventBodies \cup StatusBodies
  \cup { [b EXCEPT !.echo = e] : b \in EchoBodies, e \in wire }
  \cup { [b EXCEPT !.echo = Bogus] :
           b \in {Status("ok", 0, "self"), Event("message", "group", Absent)} }
  \cup { Unparsed("invalid"), Unparsed("array") }

WithId(b, n) ==
  [id |-> n, parse |-> b.parse, echo |-> b.echo, post_type |-> b.post_type,
   message_type |-> b.message_type, meta_event_type |-> b.meta_event_type,
   status |-> b.status, retcode |-> b.retcode, user_id |-> b.user_id]

\* the transport receives one more frame from the gateway and buffers it
\* (at most `limit` frames in one behaviour).  The client cannot see a
\* buffered frame before listen_messages reads it, so the text of the frame
\* is drawn when it is read.
Receive(limit) ==
  /\ websocket = "open"
  /\ nframes < limit
  /\ Len(inbox) < MaxInbox
  /\ nframes' = nframes + 1
  /\ inbox' = Append(inbox, nframes + 1)
  /\ UNCHANGED <<chainVars, clientVars, rpcVars, callVars, event_callbacks, wire, tasks,
                 dispatched, runPc, userClosePc, nregs>>

GatewaySend == Receive(MaxFrames)

\* the gateway closes the connection, cleanly or not
GatewayClose(how) ==
  /\ websocket = "open"
  /\ websocket' = how
  /\ UNCHANGED <<chainVars, shutdown_event, login_success_event, listening_task, rpcVars,
                 callVars, event_callbacks, wire, netVars, tasks, dispatched,
                 runPc, userClosePc, nregs>>

(* --------------------------- handle_message ---------------------------- *)
\* `echo and echo in self.response_futures`
IsResponse(table, data) ==
  data.echo # NoEcho /\ data.echo \in DOMAIN table

\* mutant: the group and private branches are exchanged
Category_Swapped(data) ==
  IF data.post_type # Absent
  THEN IF data.post_type = "message"
       THEN IF data.message_type = "group" THEN "private"
            ELSE IF data.message_type = "private" THEN "group"
            ELSE "none"
       ELSE IF data.post_type = "notice" THEN "notice"
       ELSE IF data.post_type = "meta_event" THEN "meta"
       ELSE "none"
  ELSE "napcat"

\* mutant: frames without post_type are ignored
Category_NoStatus(data) ==
  IF data.post_type # Absent
  THEN IF data.post_type = "message"
       THEN IF data.message_type = "group" THEN "group"
            ELSE IF data.message_type = "private" THEN "private"
            ELSE "none"
       ELSE IF data.post_type = "notice" THEN "notice"
       ELSE IF data.post_type = "meta_event" THEN "meta"
       ELSE "none"
  ELSE "none"

\* the category whose callbacks handle_message schedules, "none" if the
\* frame falls into one of the branches that schedule nothing
Category(data) ==
  IF data.post_type # Absent
  THEN IF data.post_type = "message"
       THEN IF data.message_type = "group" THEN "group"
            ELSE IF data.message_type = "private" THEN "private"
            ELSE "none"
       ELSE IF data.post_type = "notice" THEN "notice"
       ELSE IF data.post_type = "meta_event" THEN "meta"
       ELSE "none"
  ELSE "napcat"

\* mutant: a frame that carries any echo is taken for a response and dropped
CreatedTasks_DropEcho(callbacks, data) ==
  IF Category(data) = "none" \/ data.echo # NoEcho
  THEN << >>
  ELSE [i \in 1..Len(callbacks[Category(data)]) |->
          [func |-> callbacks[Category(data)][i], data |-> data, pc |-> "start",
           call |-> 0]]

\* for func in self.event_callbacks[cat]: asyncio.create_task(func(data))
CreatedTasks(callbacks, data) ==
  IF Category(data) = "none"
  THEN << >>
  ELSE [i \in 1..Len(callbacks[Category(data)]) |->
          [func |-> callbacks[Category(data)][i], data |-> data, pc |-> "start",
           call |-> 0]]

\* mutant: the future of the oldest pending entry is fulfilled
Resolve_Other(table, futs, data) ==
  LET first == CHOOSE e \in DOMAIN table : \A x \in DOMAIN table : e <= x
      c == table[first]
  IN  IF futs[c].state # "cancelled"
      THEN [futs EXCEPT ![c] = [state |-> "done", result |-> data]]
      ELSE futs

\* future = self.response_futures.pop(echo);
\* if not future.cancelled(): future.set_result(data)
Resolve(table, futs, data) ==
  LET c == table[data.echo]
  IN  IF futs[c].state # "cancelled"
      THEN [futs EXCEPT ![c] = [state |-> "done", result |-> data]]
      ELSE futs

\* mutant: the entry is looked up but left in the table
HandleMessage_NoPop(data) ==
  /\ IF IsResponse(response_futures, data)
     THEN /\ future' = Resolve(response_futures, future, data)
          /\ UNCHANGED <<response_futures, tasks>>
     ELSE /\ tasks' = tasks \o CreatedTasks(event_callbacks, data)
          /\ UNCHANGED <<response_futures, future>>
  /\ dispatched' = data

\* handle_message has no await: it runs in one step
HandleMessage(data) ==
  /\ IF IsResponse(response_futures, data)
     THEN /\ response_futures' = Pop(response_futures, data.echo)
          /\ future' = Resolve(response_futures, future, data)
          /\ UNCHANGED tasks
     ELSE /\ tasks' = tasks \o CreatedTasks(event_callbacks, data)
          /\ UNCHANGED <<response_futures, future>>
  /\ dispatched' = data

(* --------------------------- listen_messages --------------------------- *)
\* mutant: the newest buffered frame is taken first
NextMessage_Newest(queue) == Len(queue)

\* `async for message in self.websocket` yields the oldest buffered frame
NextMessage(queue) == 1

\* a task of a callback that has not ended
Suspended(t) == t.pc # "raised"

\* mutant: handle_message awaits the callbacks instead of scheduling them,
\* so the next frame is read only when no callback is left unfinished
ListenMessages_AwaitsCallbacks ==
  /\ \A i \in 1..Len(tasks) : ~Suspended(tasks[i])
  /\ listening_task = "running"
  /\ inbox # << >>
  /\ \E b \in FrameBodies :
       LET message == WithId(b, inbox[NextMessage(inbox)])
       IN  /\ inbox' = Remove(inbox, NextMessage(inbox))
           /\ CASE message.parse = "invalid" ->
                     UNCHANGED <<listening_task, rpcVars, tasks, dispatched>>
                [] message.parse = "array" ->
                     /\ listening_task' = "finished"
                     /\ dispatched' = message
                     /\ UNCHANGED <<rpcVars, tasks>>
                [] OTHER ->
                     /\ HandleMessage(message)
                     /\ UNCHANGED listening_task
  /\ UNCHANGED <<chainVars, websocket, shutdown_event, login_success_event, callVars,
                 event_callbacks, wire, nframes, runPc, userClosePc, nregs>>

\* one iteration of the loop body: json.loads and handle_message.
\* Text that is not JSON raises JSONDecodeError, which is logged; JSON that
\* is not an object makes data.get raise in handle_message, which ends the
\* loop in the outer `except Exception`.
ListenMessages ==
  /\ listening_task = "running"
  /\ inbox # << >>
  /\ \E b \in FrameBodies :
       LET message == WithId(b, inbox[NextMessage(inbox)])
       IN  /\ inbox' = Remove(inbox, NextMessage(inbox))
           /\ CASE message.parse = "invalid" ->
                     UNCHANGED <<listening_task, rpcVars, tasks, dispatched>>
                [] message.parse = "array" ->
                     /\ listening_task' = "finished"
                     /\ dispatched' = message
                     /\ UNCHANGED <<rpcVars, tasks>>
                [] OTHER ->
                     /\ HandleMessage(message)
                     /\ UNCHANGED listening_task
  /\ UNCHANGED <<chainVars, websocket, shutdown_event, login_success_event, callVars,
                 event_callbacks, wire, nframes, runPc, userClosePc, nregs>>

\* the task starts: the first test of `while not shutdown_event.is_set()`
ListenStart ==
  /\ listening_task = "created"
  /\ listening_task' = IF shutdown_event THEN "finished" ELSE "running"
  /\ UNCHANGED <<chainVars, websocket, shutdown_event, login_success_event, rpcVars,
                 callVars, event_callbacks, wire, netVars, tasks, dispatched,
                 runPc, userClosePc, nregs>>

\* the connection is closed and every buffered frame was read.  A broken
\* connection raises ConnectionClosed, which listen_messages catches.  A
\* clean close ends `async for`; the loop is left only when the shutdown
\* flag is set (otherwise see ListenSpin).
ListenEnd ==
  /\ listening_task = "running"
  /\ inbox = << >>
  /\ \/ websocket = "broken"
     \/ websocket = "closed" /\ shutdown_event
  /\ listening_task' = "finished"
  /\ UNCHANGED <<chainVars, websocket, shutdown_event, login_success_event, rpcVars,
                 callVars, event_callbacks, wire, netVars, tasks, dispatched,
                 runPc, userClosePc, nregs>>

\* the gateway closed the connection cleanly and close() was not called:
\* `async for` ends without an exception, the shutdown flag is not set, and
\* the while loop iterates the closed connection again.  Receiving from a
\* closed connection fails at once, without suspending, so the loop never
\* yields: no other task, timer or callback of the event loop runs any more.
ListenSpin ==
  /\ listening_task = "running"
  /\ inbox = << >>
  /\ websocket = "closed"
  /\ ~shutdown_event
  /\ listening_task' = "spinning"
  /\ UNCHANGED <<chainVars, websocket, shutdown_event, login_success_event, rpcVars,
                 callVars, event_callbacks, wire, netVars, tasks, dispatched,
                 runPc, userClosePc, nregs>>

\* Task.cancel() was called: CancelledError is raised at the await of the
\* task and no except clause of listen_messages catches it
ListenCancelled ==
  /\ listening_task = "cancelling"
  /\ listening_task' = "cancelled"
  /\ UNCHANGED <<chainVars, websocket, shutdown_event, login_success_event, rpcVars,
                 callVars, event_callbacks, wire, netVars, tasks, dispatched,
                 runPc, userClosePc, nregs>>

(* -------------------------------- close -------------------------------- *)
\* mutant: the task is cancelled without asking whether it is done
CancelListening_Always(t) == IF t # "none" THEN "cancelling" ELSE t

\* `if cancellable: task.cancel(); await task`, else fall through to return
CancelListening(t) == IF Cancellable(t) THEN "cancelling" ELSE t
PcAfterTransportClosed(t) == IF Cancellable(t) THEN "close_wait" ELSE "closed"

\* close() up to its first suspension: set the shutdown flag, clear the
\* login signal, and start closing an open transport.  A missing transport
\* is skipped and a closed one returns at once.
CloseBegin ==
  /\ shutdown_event' = TRUE
  /\ login_success_event' = FALSE
  /\ listening_task' = IF websocket = "open" THEN listening_task
                       ELSE CancelListening(listening_task)
  /\ UNCHANGED websocket

PcAfterCloseBegin ==
  IF websocket = "open" THEN "close_ws"
  ELSE PcAfterTransportClosed(listening_task)

\* `await self.websocket.close()` returns: cancel the listening task
CloseTransportDone ==
  /\ websocket' = IF websocket = "open" THEN "closed" ELSE websocket
  /\ listening_task' = CancelListening(listening_task)
  /\ UNCHANGED <<shutdown_event, login_success_event>>

\* close() called by application code
UserClose ==
  /\ LoopRuns
  /\ userClosePc = "idle"
  /\ CloseBegin
  /\ userClosePc' = PcAfterCloseBegin
  /\ UNCHANGED <<chainVars, rpcVars, callVars, event_callbacks, wire, netVars, tasks,
                 dispatched, runPc, nregs>>

UserCloseTransportDone ==
  /\ LoopRuns
  /\ userClosePc = "close_ws"
  /\ CloseTransportDone
  /\ userClosePc' = PcAfterTransportClosed(listening_task)
  /\ UNCHANGED <<chainVars, rpcVars, callVars, event_callbacks, wire, netVars, tasks,
                 dispatched, runPc, nregs>>

\* `await self._listening_task` returns or raises CancelledError; both return
UserCloseWaitDone ==
  /\ userClosePc = "close_wait"
  /\ TaskDone(listening_task)
  /\ userClosePc' = "closed"
  /\ UNCHANGED <<chainVars, clientVars, rpcVars, callVars, event_callbacks, wire, netVars,
                 tasks, dispatched, runPc, nregs>>

(* --------------------------- subscriber tasks --------------------------- *)
\* tasks start in the order in which create_task was called
NextToStart(i) ==
  /\ i \in 1..Len(tasks)
  /\ tasks[i].pc = "start"
  /\ \A j \in 1..(i - 1) : tasks[j].pc # "start"

\* on_napcat_message: status failed with retcode 1403 calls close()
InvalidToken(data) == data.status = "failed" /\ data.retcode = 1403

\* on_meta_message: a lifecycle meta event sets the login signal
Lifecycle(data) == data.meta_event_type = "lifecycle"

TaskAt(i, pc) ==
  IF pc = "closed" THEN Remove(tasks, i) ELSE [tasks EXCEPT ![i].pc = pc]

\* mutant: the exception of one callback takes the tasks created after it
\* with it
Raise_AbortsLater(ts, i) ==
  [j \in 1..i |-> IF j = i THEN [ts[j] EXCEPT !.pc = "raised"] ELSE ts[j]]

\* a callback raises: the exception ends its own task, where it stays (it
\* is never retrieved); the tasks of the other callbacks are not affected
Raise(ts, i) == [ts EXCEPT ![i].pc = "raised"]

\* the first step of a callback task
TaskStart(i) ==
  /\ LoopRuns
  /\ NextToStart(i)
  /\ tasks[i].func # "sending_callback"
  /\ IF tasks[i].func = "on_napcat_message" /\ InvalidToken(tasks[i].data)
     THEN /\ CloseBegin
          /\ tasks' = TaskAt(i, PcAfterCloseBegin)
     ELSE /\ tasks' = IF tasks[i].func = "raising_callback"
                       THEN Raise(tasks, i) ELSE Remove(tasks, i)
          /\ login_success_event' =
               IF tasks[i].func = "on_meta_message" /\ Lifecycle(tasks[i].data)
               THEN TRUE ELSE login_success_event
          /\ UNCHANGED <<websocket, shutdown_event, listening_task>>
  /\ UNCHANGED <<chainVars, rpcVars, callVars, event_callbacks, wire, netVars,
                 dispatched, runPc, userClosePc, nregs>>

\* the first step of a callback that answers its frame: it builds a chain,
\* calls send_direct_message and is suspended inside send_action
TaskSend(i, c) ==
  /\ LoopRuns
  /\ NextToStart(i)
  /\ tasks[i].func = "sending_callback"
  /\ SendActionBegin(c, "callback", websocket)
  /\ tasks' = [tasks EXCEPT ![i].pc = "send_wait", ![i].call = c]
  /\ UNCHANGED <<chainVars, clientVars, event_callbacks, netVars, dispatched,
                 runPc, userClosePc, nregs>>

\* send_action has returned to the callback, which returns, or has raised,
\* and the exception ends the callback's task
TaskSendDone(i) ==
  /\ LoopRuns
  /\ i \in 1..Len(tasks)
  /\ tasks[i].pc = "send_wait"
  /\ Terminated(tasks[i].call)
  /\ tasks' = IF callPc[tasks[i].call] = "returned"
              THEN Remove(tasks, i) ELSE Raise(tasks, i)
  /\ UNCHANGED <<chainVars, clientVars, rpcVars, callVars, event_callbacks,
                 wire, netVars, dispatched, runPc, userClosePc, nregs>>

TaskCloseTransportDone(i) ==
  /\ LoopRuns
  /\ i \in 1..Len(tasks)
  /\ tasks[i].pc = "close_ws"
  /\ CloseTransportDone
  /\ tasks' = TaskAt(i, PcAfterTransportClosed(listening_task))
  /\ UNCHANGED <<chainVars, rpcVars, callVars, event_callbacks, wire, netVars,
                 dispatched, runPc, userClosePc, nregs>>

TaskCloseWaitDone(i) ==
  /\ i \in 1..Len(tasks)
  /\ tasks[i].pc = "close_wait"
  /\ TaskDone(listening_task)
  /\ tasks' = Remove(tasks, i)
  /\ UNCHANGED <<chainVars, clientVars, rpcVars, callVars, event_callbacks, wire, netVars,
                 dispatched, runPc, userClosePc, nregs>>

(* --------------------------------- run --------------------------------- *)
\* run() stores its arguments, registers on_meta_message and
\* on_napcat_message and awaits connect()
RunStart ==
  /\ runPc = "init"
  /\ event_callbacks' =
       [event_callbacks EXCEPT !["meta"] = Append(@, "on_meta_message"),
                               !["napcat"] = Append(@, "on_napcat_message")]
  /\ runPc' = "connecting"
  /\ UNCHANGED <<chainVars, clientVars, rpcVars, callVars, wire, netVars, tasks,
                 dispatched, userClosePc, nregs>>

\* websockets.connect succeeded: connect() stores the connection, run()
\* creates the listening task and get_login_info() enters send_action
ConnectOk(c) ==
  /\ runPc = "connecting"
  /\ websocket' = "open"
  /\ listening_task' = "created"
  /\ SendActionBegin(c, "run", "open")
  /\ runPc' = "login_info"
  /\ UNCHANGED <<chainVars, shutdown_event, login_success_event, event_callbacks,
                 netVars, tasks, dispatched, userClosePc, nregs>>

\* websockets.connect raised: connect() reports failed and run() returns
ConnectFailed ==
  /\ runPc = "connecting"
  /\ runPc' = "returned"
  /\ UNCHANGED <<chainVars, clientVars, rpcVars, callVars, event_callbacks, wire, netVars,
                 tasks, dispatched, userClosePc, nregs>>

RunCall(c) == callOwner[c] = "run"

\* mutant: the account ids are not compared
Mismatch_Never(login_info) == FALSE

\* str(login_info.get("data", {}).get("user_id")) != str(bt_uin)
Mismatch(login_info) == login_info.user_id # "self"

\* get_login_info() returned: compare the account ids; on a mismatch call
\* close(), otherwise start the bounded wait for the login signal
RunLoginInfo(c) ==
  /\ LoopRuns
  /\ runPc = "login_info"
  /\ RunCall(c)
  /\ callPc[c] = "returned"
  /\ IF Mismatch(future[c].result)
     THEN /\ CloseBegin
          /\ runPc' = IF PcAfterCloseBegin = "closed" THEN "returned"
                      ELSE PcAfterCloseBegin
     ELSE /\ runPc' = "await_login"
          /\ UNCHANGED clientVars
  /\ UNCHANGED <<chainVars, rpcVars, callVars, event_callbacks, wire, netVars, tasks,
                 dispatched, userClosePc, nregs>>

\* get_login_info() raised: the exception leaves run()
RunLoginRaised(c) ==
  /\ LoopRuns
  /\ runPc = "login_info"
  /\ RunCall(c)
  /\ Terminated(c)
  /\ callPc[c] # "returned"
  /\ runPc' = "raised"
  /\ UNCHANGED <<chainVars, clientVars, rpcVars, callVars, event_callbacks, wire, netVars,
                 tasks, dispatched, userClosePc, nregs>>

RunCloseTransportDone ==
  /\ LoopRuns
  /\ runPc = "close_ws"
  /\ CloseTransportDone
  /\ runPc' = IF Cancellable(listening_task) THEN "close_wait" ELSE "returned"
  /\ UNCHANGED <<chainVars, rpcVars, callVars, event_callbacks, wire, netVars, tasks,
                 dispatched, userClosePc, nregs>>

RunCloseWaitDone ==
  /\ runPc = "close_wait"
  /\ TaskDone(listening_task)
  /\ runPc' = "returned"
  /\ UNCHANGED <<chainVars, clientVars, rpcVars, callVars, event_callbacks, wire, netVars,
                 tasks, dispatched, userClosePc, nregs>>

\* wait_for(login_success_event.wait(), 5) returns: the event is set
RunLoginSuccess ==
  /\ LoopRuns
  /\ runPc = "await_login"
  /\ login_success_event
  /\ runPc' = "ready"
  /\ UNCHANGED <<chainVars, clientVars, rpcVars, callVars, event_callbacks, wire, netVars,
                 tasks, dispatched, userClosePc, nregs>>

\* the wait expires: cancel the listening task and wait for it, then return
RunLoginTimeout ==
  /\ LoopRuns
  /\ runPc = "await_login"
  /\ ~login_success_event
  /\ listening_task' = CancelListening(listening_task)
  /\ runPc' = IF Cancellable(listening_task) THEN "timeout_wait" ELSE "returned"
  /\ UNCHANGED <<chainVars, websocket, shutdown_event, login_success_event, rpcVars,
                 callVars, event_callbacks, wire, netVars, tasks, dispatched,
                 userClosePc, nregs>>

RunTimeoutWaitDone ==
  /\ runPc = "timeout_wait"
  /\ TaskDone(listening_task)
  /\ runPc' = "returned"
  /\ UNCHANGED <<chainVars, clientVars, rpcVars, callVars, event_callbacks, wire, netVars,
                 tasks, dispatched, userClosePc, nregs>>

\* `await self._listening_task` in Ready: returns when the task finished,
\* raises CancelledError when the task was cancelled
RunListeningDone ==
  /\ runPc = "ready"
  /\ TaskDone(listening_task)
  /\ runPc' = IF listening_task = "cancelled" THEN "raised" ELSE "returned"
  /\ UNCHANGED <<chainVars, clientVars, rpcVars, callVars, event_callbacks, wire, netVars,
                 tasks, dispatched, userClosePc, nregs>>

(* ----------------------------- specification --------------------------- *)
Next ==
  \/ \E cat \in UserCategories : Register(cat, "user_callback")
  \/ RunStart
  \/ \E c \in Calls : ConnectOk(c)
  \/ ConnectFailed
  \/ \E c \in Calls : RunLoginInfo(c)
  \/ \E c \in Calls : RunLoginRaised(c)
  \/ RunCloseTransportDone
  \/ RunCloseWaitDone
  \/ RunLoginSuccess
  \/ RunLoginTimeout
  \/ RunTimeoutWaitDone
  \/ RunListeningDone
  \/ \E c \in Calls : UserSendAction(c)
  \/ \E c \in Calls : SendActionReturn(c)
  \/ \E c \in Calls : Timeout(c)
  \/ \E c \in Calls : TimeoutResume(c)
  \/ GatewaySend
  \/ \E how \in {"closed", "broken"} : GatewayClose(how)
  \/ ListenStart
  \/ ListenMessages
  \/ ListenEnd
  \/ ListenSpin
  \/ ListenCancelled
  \/ UserClose
  \/ UserCloseTransportDone
  \/ UserCloseWaitDone
  \/ \E i \in 1..Len(tasks) : TaskStart(i)
  \/ \E i \in 1..Len(tasks) : TaskCloseTransportDone(i)
  \/ \E i \in 1..Len(tasks) : TaskCloseWaitDone(i)

Spec == Init /\ [][Next]_vars

(* ------------------- the session from Ready onwards -------------------- *)
\* the frames run() needs to reach line 84: the response to get_login_info
\* with the configured account, then a lifecycle meta event
LoginResponse == WithId([Status("ok", 0, "self") EXCEPT !.echo = 1], 1)
LifecycleEvent == WithId(Event("meta_event", Absent, "lifecycle"), 2)

\* the callbacks registered when run() has passed its decorators
CallbacksOfRun ==
  [k \in Categories |->
     CASE k = "meta" -> <<"on_meta_message">>
       [] k = "napcat" -> <<"on_napcat_message">>
       [] OTHER -> << >>]

\* the state in which run() is suspended at `await self._listening_task`
\* (Ready): connected, account confirmed, login signal set, listening.
\* The application has registered callbacks of either kind in one category,
\* which may be "napcat", where run() added on_napcat_message after them.
InitReady ==
  /\ websocket = "open"
  /\ response_futures = << >>
  /\ future = [c \in Calls |->
                 IF c = 1 THEN [state |-> "done", result |-> LoginResponse]
                 ELSE [state |-> "none", result |-> NoFrame]]
  /\ shutdown_event = FALSE
  /\ login_success_event = TRUE
  /\ listening_task = "running"
  /\ \E n \in 0..MaxRegs :
       /\ nregs = n
       /\ \E cat \in UserCategories \cup {"napcat"} : \E func \in UserCallbacks :
            event_callbacks =
              [CallbacksOfRun EXCEPT ![cat] = [i \in 1..n |-> func] \o @]
  /\ callPc = [c \in Calls |-> IF c = 1 THEN "returned" ELSE "idle"]
  /\ callEcho = [c \in Calls |-> IF c = 1 THEN 1 ELSE NoEcho]
  /\ callOwner = [c \in Calls |-> IF c = 1 THEN "run" ELSE "nobody"]
  /\ wire = {1}
  /\ inbox = << >>
  /\ nframes = 2
  /\ tasks = << >>
  /\ dispatched = LifecycleEvent
  /\ runPc = "ready"
  /\ userClosePc = "idle"
  /\ msg_seg_list = << >>
  /\ msg_list = << >>
  /\ chainPc = "built"

\* the frames of InitReady and MaxFrames more
GatewaySendReady == Receive(2 + MaxFrames)

\* the steps that are possible from Ready
NextReady ==
  \/ RunListeningDone
  \/ \E c \in Calls : UserSendAction(c)
  \/ \E c \in Calls : SendActionReturn(c)
  \/ \E c \in Calls : Timeout(c)
  \/ \E c \in Calls : TimeoutResume(c)
  \/ GatewaySendReady
  \/ \E how \in {"closed", "broken"} : GatewayClose(how)
  \/ ListenMessages
  \/ ListenEnd
  \/ ListenSpin
  \/ ListenCancelled
  \/ UserClose
  \/ UserCloseTransportDone
  \/ UserCloseWaitDone
  \/ \E i \in 1..Len(tasks) : TaskStart(i)
  \/ \E i \in 1..Len(tasks) : TaskCloseTransportDone(i)
  \/ \E i \in 1..Len(tasks) : TaskCloseWaitDone(i)
  \/ \E i \in 1..Len(tasks) : \E c \in Calls : TaskSend(i, c)
  \/ \E i \in 1..Len(tasks) : TaskSendDone(i)

SpecReady == InitReady /\ [][NextReady]_vars

(* ------------------------ QQMessageChain.to_list ----------------------- *)
\* a segment object of class QQMessageType.<class>; `numeric` says whether
\* int() accepts its id (Emoji)
Segment(class, value, numeric) ==
  [class |-> class, type |-> "", value |-> value, numeric |-> numeric]

\* a wire entry {"type": type, "data": {...: value}}: a dict
Entry(type, value) ==
  [class |-> "dict", type |-> type, value |-> value, numeric |-> TRUE]

\* the segments a chain is built from: two texts, an image given by url, a
\* mention, two replies, an emoji with a numeric and one with another id,
\* and a notice (Notice and Poke have no branch in to_list)
Segments ==
  { Segment("Text", 1, TRUE), Segment("Text", 2, TRUE),
    Segment("Image", 1, TRUE), Segment("At", 1, TRUE),
    Segment("Reply", 1, TRUE), Segment("Reply", 2, TRUE),
    Segment("Emoji", 1, TRUE), Segment("Emoji", 2, FALSE),
    Segment("Notice", 1, TRUE) }

Chains == UNION {[1..n -> Segments] : n \in 0..MaxSegs}

\* isinstance(item, QQMessageType.<cls>)
IsInstance(item, cls) == item.class = cls

\* any(isinstance(item, QQMessageType.Reply) for item in msg_list)
AnyReplyIn(out) == \E k \in 1..Len(out) : IsInstance(out[k], "Reply")

\* one iteration of `for ele in self.msg_seg_list`
ToListStep(out, ele) ==
  CASE IsInstance(ele, "Text")  -> Append(out, Entry("text", ele.value))
    [] IsInstance(ele, "Image") -> Append(out, Entry("image", ele.value))
    [] IsInstance(ele, "At")    -> Append(out, Entry("at", ele.value))
    [] IsInstance(ele, "Reply") ->
         IF AnyReplyIn(out) THEN out
         ELSE <<Entry("reply", ele.value)>> \o out
    [] IsInstance(ele, "Emoji") ->
         IF ele.numeric THEN Append(out, Entry("face", ele.value)) ELSE out
    [] OTHER -> out

RECURSIVE ToListFrom(_, _, _)
ToListFrom(segs, k, out) ==
  IF k > Len(segs) THEN out
  ELSE ToListFrom(segs, k + 1, ToListStep(out, segs[k]))

\* QQMessageChain.to_list()
ToList(segs) == ToListFrom(segs, 1, << >>)

\* QQMessageChain(msg_list) for any list of segments, on a fresh client
InitChain ==
  /\ ClientInit
  /\ msg_seg_list \in Chains
  /\ msg_list = << >>
  /\ chainPc = "built"

\* msg.to_list(), as send_group_message and send_direct_message call it
ToListCall ==
  /\ chainPc = "built"
  /\ msg_list' = ToList(msg_seg_list)
  /\ chainPc' = "listed"
  /\ UNCHANGED <<clientVars, rpcVars, callVars, event_callbacks, wire, netVars,
                 tasks, dispatched, runPc, userClosePc, nregs, msg_seg_list>>

NextChain == ToListCall

SpecChain == InitChain /\ [][NextChain]_vars

(* ------------------------------- claims -------------------------------- *)
\* a step in which handle_message ran on a frame that parsed to an object
Handled == dispatched' # dispatched /\ dispatched'.parse = "object"

\* the category a frame selects, as the interface description states it
SelectedCategory(f) ==
  CASE f.post_type = "message" /\ f.message_type = "group"   -> "group"
    [] f.post_type = "message" /\ f.message_type = "private" -> "private"
    [] f.post_type = "notice"                                -> "notice"
    [] f.post_type = "meta_event"                            -> "meta"
    [] f.post_type = Absent                                  -> "napcat"
    [] OTHER                                                 -> "none"

\* one task per subscriber of the selected category, in registration order
SubscriberTasks(f) ==
  IF SelectedCategory(f) = "none"
  THEN << >>
  ELSE [i \in 1..Len(event_callbacks[SelectedCategory(f)]) |->
          [func |-> event_callbacks[SelectedCategory(f)][i], data |-> f,
           pc |-> "start", call |-> 0]]

\* C1: a call whose future is fulfilled holds, and returns, a frame whose
\* echo is the echo that call generated; never a frame with another echo.
C1_NoCrossResolution ==
  \A c \in Calls :
    /\ future[c].state = "done" => future[c].result.echo = callEcho[c]
    /\ callPc[c] = "returned" => future[c].state = "done"

\* two calls were pending together, the responses came in the opposite
\* order, and both calls returned
C1_Witness ==
  /\ callPc[1] = "returned" /\ callPc[2] = "returned"
  /\ callEcho[1] # callEcho[2]
  /\ future[1].result.id = 2 /\ future[2].result.id = 1

\* C2: a future is fulfilled at most once (a fulfilled future never changes
\* again, whatever frames follow), and the step that fulfils it removes its
\* entry from response_futures.
C2_AtMostOneResolution ==
  [][\A c \in Calls :
       /\ future[c].state = "done" => future'[c] = future[c]
       /\ (future[c].state # "done" /\ future'[c].state = "done") =>
            /\ callEcho[c] \in DOMAIN response_futures
            /\ callEcho[c] \notin DOMAIN response_futures']_vars

\* a second frame with the echo of a fulfilled call was dispatched: it went
\* to the subscribers and the call keeps the first frame
C2_Witness ==
  \E c \in Calls : \E i \in 1..Len(tasks) :
    /\ future[c].state = "done"
    /\ tasks[i].data.echo = callEcho[c]
    /\ tasks[i].data.id > future[c].result.id

\* C3: a call whose wait timed out ends with a TimeoutError.
C3_TimeoutErrorRaised ==
  \A c \in Calls :
    (future[c].state = "cancelled" /\ callPc[c] # "timedout") =>
       callPc[c] = "TimeoutError"

\* C4: response_futures holds only echoes of calls that are still inside
\* their wait, each mapped to that call's future, and the step in which a
\* timed-out call resumes removes that call's entry and no other.
C4_NoStaleEntry ==
  /\ [](\A e \in DOMAIN response_futures :
          \E c \in Calls : /\ callEcho[c] = e
                           /\ response_futures[e] = c
                           /\ callPc[c] \in {"waiting", "timedout"})
  /\ [][\A c \in Calls :
          (callPc[c] = "timedout" /\ callPc'[c] # "timedout") =>
             response_futures' = Pop(response_futures, callEcho[c])]_vars

\* one call timed out and left the table while another one is still waiting
C4_Witness ==
  \E c, d \in Calls :
    /\ future[c].state = "cancelled" /\ Terminated(c)
    /\ callEcho[c] \notin DOMAIN response_futures
    /\ callPc[d] = "waiting" /\ future[d].state = "pending"
    /\ callEcho[d] \in DOMAIN response_futures

\* C5: a call whose request could not be sent has removed its entry and has
\* ended with the send error.
C5_SendFailurePropagated ==
  \A c \in Calls :
    (Started(c) /\ callEcho[c] \notin wire) =>
       /\ callEcho[c] \notin DOMAIN response_futures
       /\ callPc[c] = "SendError"

\* C6: when close() completes, no call is left waiting and the table is empty.
C6_CloseFailsPendingCalls ==
  [][(userClosePc # "closed" /\ userClosePc' = "closed") =>
       /\ \A c \in Calls : callPc'[c] \notin {"waiting", "timedout"}
       /\ DOMAIN response_futures' = {}]_vars

\* C7: frames are handled in receipt order, one at a time: every buffered
\* frame is newer than the last handled one, and every effect that exists
\* (a created task, a fulfilled future) belongs to a handled frame, older
\* frames first.
C7_DispatchInReceiptOrder ==
  /\ \A i \in 1..Len(inbox) : inbox[i] > dispatched.id
  /\ \A i, j \in 1..Len(inbox) : i < j => inbox[i] < inbox[j]
  /\ \A i \in 1..Len(tasks) : tasks[i].data.id <= dispatched.id
  /\ \A i, j \in 1..Len(tasks) : i < j => tasks[i].data.id <= tasks[j].data.id
  /\ \A c \in Calls : future[c].result.id <= dispatched.id

\* frame 1 fulfilled a call and frame 2, buffered behind it, created a task
C7_Witness ==
  /\ dispatched.id = 2
  /\ \E c \in Calls : future[c].result.id = 1
  /\ \E i \in 1..Len(tasks) : tasks[i].data.id = 2

\* the frame carries the echo of a call whose wait timed out and whose
\* entry the timeout handler has removed
LateResponse(f) ==
  \E c \in Calls :
    /\ Started(c) /\ f.echo = callEcho[c]
    /\ future[c].state = "cancelled"
    /\ f.echo \notin DOMAIN response_futures

\* C8 (as stated): a frame whose echo is in response_futures fulfils that
\* request and creates no task; any other frame touches no request and
\* creates the tasks of exactly the selected category.
C8_OneDestinationAlwaysResolved ==
  [][Handled =>
       LET f == dispatched'
       IN  IF f.echo \in DOMAIN response_futures
           THEN /\ future'[response_futures[f.echo]] =
                     [state |-> "done", result |-> f]
                /\ tasks' = tasks
           ELSE /\ response_futures' = response_futures
                /\ future' = future
                /\ tasks' = tasks \o SubscriberTasks(f)]_vars

\* C8 (amended): a frame whose echo is in response_futures removes that
\* entry, fulfils its future unless a timeout has cancelled it, changes no
\* other future and creates no task; any other frame touches no request and
\* creates the tasks of exactly the selected category.
C8_OneDestination ==
  [][Handled =>
       LET f == dispatched'
       IN  IF f.echo \in DOMAIN response_futures
           THEN LET c == response_futures[f.echo]
                IN  /\ response_futures' = Pop(response_futures, f.echo)
                    /\ future' =
                         IF future[c].state = "cancelled" THEN future
                         ELSE [future EXCEPT
                                 ![c] = [state |-> "done", result |-> f]]
                    /\ tasks' = tasks
           ELSE /\ response_futures' = response_futures
                /\ future' = future
                /\ tasks' = tasks \o SubscriberTasks(f)]_vars

\* a frame met the entry of a call whose future the timeout had cancelled:
\* the entry is gone, nothing was fulfilled
C8_Witness ==
  \E c \in Calls :
    /\ callPc[c] = "timedout"
    /\ dispatched.echo = callEcho[c]
    /\ future[c].state = "cancelled"
    /\ callEcho[c] \notin DOMAIN response_futures

\* C9: a frame with an echo that is not in response_futures changes no
\* request, creates the tasks of the category its post_type selects, and
\* the listening loop goes on.
C9_UnknownEchoIsEvent ==
  [][(Handled /\ dispatched'.echo # NoEcho
              /\ dispatched'.echo \notin DOMAIN response_futures) =>
       /\ response_futures' = response_futures
       /\ future' = future
       /\ tasks' = tasks \o SubscriberTasks(dispatched')
       /\ listening_task' = "running"]_vars

\* a frame with an echo nobody waits for was given to a subscriber, and the
\* loop is still running
C9_Witness ==
  /\ listening_task = "running"
  /\ dispatched.echo # NoEcho
  /\ dispatched.echo \notin DOMAIN response_futures
  /\ \E i \in 1..Len(tasks) : tasks[i].data = dispatched

\* C10 (as stated): a response that arrives after its call timed out and
\* left the table fulfils no future and creates no task.
C10_LateResponseDiscarded ==
  [][(Handled /\ LateResponse(dispatched')) =>
       /\ future' = future
       /\ tasks' = tasks
       /\ listening_task' = "running"]_vars

\* C10 (amended): such a response fulfils no future, changes no entry and
\* stops nothing, and it is handled as an event: the subscribers of the
\* category its post_type selects get a task.
C10_LateResponseIsEvent ==
  [][(Handled /\ LateResponse(dispatched')) =>
       /\ future' = future
       /\ response_futures' = response_futures
       /\ listening_task' = "running"
       /\ tasks' = tasks \o SubscriberTasks(dispatched')]_vars

\* the late response of a timed-out call is in the hands of on_napcat_message
C10_Witness ==
  \E c \in Calls : \E i \in 1..Len(tasks) :
    /\ future[c].state = "cancelled" /\ Terminated(c)
    /\ tasks[i].data.echo = callEcho[c]
    /\ tasks[i].data.post_type = Absent
    /\ tasks[i].func = "on_napcat_message"

\* the task of on_napcat_message for an invalid-token frame: it calls close()
ClosingTask(t) == t.func = "on_napcat_message" /\ InvalidToken(t.data)

\* a step in which a call of close() starts (by the application, by run()
\* after an account mismatch, or by on_napcat_message)
CloseBegins ==
  \/ userClosePc = "idle" /\ userClosePc' # "idle"
  \/ runPc = "login_info" /\ runPc' \in {"close_ws", "close_wait", "returned"}
  \/ \E i \in 1..Len(tasks) :
       /\ NextToStart(i) /\ ClosingTask(tasks[i])
       /\ tasks' \in {TaskAt(i, pc) : pc \in {"close_ws", "close_wait", "closed"}}

\* a step in which a call of close() returns
CloseEnds ==
  \/ userClosePc # "closed" /\ userClosePc' = "closed"
  \/ runPc \in {"login_info", "close_ws", "close_wait"} /\ runPc' = "returned"
  \/ \E i \in 1..Len(tasks) :
       /\ ClosingTask(tasks[i]) /\ (tasks[i].pc = "start" => NextToStart(i))
       /\ tasks' = Remove(tasks, i)

\* C11: close() is idempotent.  Every call of close(), the first and any
\* later or interleaved one, sets the shutdown flag and clears the login
\* signal when it starts and returns with the shutdown flag set, the
\* transport not open and the listening task done; a closed transport and a
\* done listening task are never touched again (no second cancellation), and
\* the shutdown flag is never reset.
C11_CloseIdempotent ==
  [][/\ CloseBegins => (shutdown_event' /\ ~login_success_event')
     /\ CloseEnds =>
          /\ shutdown_event' /\ websocket' # "open"
          /\ listening_task' = "none" \/ TaskDone(listening_task')
     /\ TaskDone(listening_task) => listening_task' = listening_task
     /\ websocket \in {"closed", "broken"} => websocket' = websocket
     /\ shutdown_event => shutdown_event']_vars

\* close() was called by run() after an account mismatch and by the
\* application, and both calls have returned
C11_Witness ==
  /\ userClosePc = "closed" /\ runPc = "returned"
  /\ \E c \in Calls : RunCall(c) /\ callPc[c] = "returned"
                        /\ Mismatch(future[c].result)
  /\ shutdown_event /\ ~login_success_event
  /\ websocket = "closed" /\ listening_task = "cancelled"

\* C12: while run() is in Ready, close() has not been called and the
\* transport is open, the listening task stays in its loop, whatever frame
\* it reads.
C12_ListeningContinues ==
  [][(runPc = "ready" /\ listening_task = "running" /\ ~shutdown_event
        /\ websocket = "open") =>
       listening_task' = "running"]_vars

\* get_login_info() has returned to run() a response whose account is not
\* the configured one
OtherAccount ==
  \E c \in Calls : /\ callOwner[c] = "run" /\ callPc[c] = "returned"
                    /\ future[c].result.user_id # "self"

\* C13: once get_login_info() has returned another account, run() is never
\* found waiting for the login signal nor in Ready: its next step starts
\* close() (shutdown flag set, login signal cleared) whether or not the
\* login signal was set, and when it has returned the shutdown flag is set,
\* the transport is not open and the listening task is done.
C13_MismatchCloses ==
  /\ [](OtherAccount =>
          /\ runPc \in {"login_info", "close_ws", "close_wait", "returned"}
          /\ runPc # "login_info" => shutdown_event
          /\ runPc = "returned" =>
               (websocket # "open" /\ TaskDone(listening_task)))
  /\ [][(OtherAccount /\ runPc = "login_info" /\ runPc' # runPc) =>
          /\ runPc' \in {"close_ws", "close_wait", "returned"}
          /\ shutdown_event' /\ ~login_success_event']_vars

\* a lifecycle event was received before the response with the other
\* account; run() has closed the session and returned
C13_Witness ==
  /\ OtherAccount /\ runPc = "returned"
  /\ websocket = "closed" /\ listening_task = "cancelled"
  /\ \E c \in Calls : \E i \in 1..Len(tasks) :
       /\ callOwner[c] = "run"
       /\ tasks[i].func = "on_meta_message" /\ Lifecycle(tasks[i].data)
       /\ tasks[i].data.id < future[c].result.id

\* C14: when run() returns because the login wait expired, the listening
\* task is done, the shutdown flag is set and the transport is closed.
C14_LoginTimeoutCloses ==
  [][(runPc \in {"await_login", "timeout_wait"} /\ runPc' = "returned") =>
       /\ TaskDone(listening_task')
       /\ shutdown_event'
       /\ websocket' # "open"]_vars

\* C15: after a gateway-status frame with status failed and retcode 1403 was
\* dispatched, no later frame is dispatched.
C15_NothingAfterInvalidToken ==
  [][(dispatched.parse = "object" /\ dispatched.post_type = Absent
        /\ dispatched.status = "failed" /\ dispatched.retcode = 1403) =>
       dispatched' = dispatched]_vars

\* C16: reading a frame that is not valid JSON, or is JSON but not an
\* object, changes nothing but the buffer: the listening loop stays running.
C16_UnparsedFrameDropped ==
  [][(listening_task = "running" /\ Len(inbox') < Len(inbox)
        /\ (dispatched' = dispatched \/ dispatched'.parse # "object")) =>
       /\ listening_task' = "running"
       /\ UNCHANGED <<response_futures, future, tasks>>]_vars

\* a step in which the task of a callback ends with an exception
Raises(i) ==
  /\ i \in 1..Len(tasks) /\ NextToStart(i)
  /\ Len(tasks') >= i /\ tasks'[i].pc = "raised"

\* C17: the step in which a callback raises changes the state of its own
\* task and nothing else: the listening task, the buffered frames, the
\* pending requests and every other task, started or not, stay as they
\* are.  Tasks start in the order of their creation, which for one frame is
\* the registration order, so the callbacks registered after a raising one
\* are still started, and the loop goes on dispatching.
C17_RaisingSubscriberIsolated ==
  /\ [][\A i \in 1..Len(tasks) :
          Raises(i) =>
            /\ Len(tasks') = Len(tasks)
            /\ \A j \in 1..Len(tasks) : j # i => tasks'[j] = tasks[j]
            /\ UNCHANGED <<clientVars, rpcVars, callVars, event_callbacks,
                           inbox, dispatched, runPc>>]_vars
  /\ [](\A i, j \in 1..Len(tasks) :
          (i < j /\ tasks[j].pc # "start") => tasks[i].pc # "start")

\* the callback registered first raised on an invalid-token frame; the
\* callback registered after it, on_napcat_message, was started for the same
\* frame and is closing the session, and the loop dispatched a later frame
C17_Witness ==
  \E i, j \in 1..Len(tasks) :
    /\ i < j
    /\ tasks[i].func = "raising_callback" /\ tasks[i].pc = "raised"
    /\ tasks[j].func = "on_napcat_message" /\ tasks[j].pc = "close_ws"
    /\ tasks[j].data = tasks[i].data
    /\ dispatched.id > tasks[i].data.id

IsReplyEntry(e) == e.type = "reply"
NotReplyEntry(e) == e.type # "reply"
NotReplySegment(e) == e.class # "Reply"

\* C18: the list to_list() returns for a chain with a reply segment starts
\* with a reply entry and holds exactly one reply entry, however many reply
\* segments the chain has; its other entries are the entries of the other
\* segments, in input order.
C18_OneReplyFirst ==
  chainPc = "listed" =>
    /\ (\E k \in 1..Len(msg_seg_list) : msg_seg_list[k].class = "Reply") =>
         /\ msg_list # << >>
         /\ IsReplyEntry(msg_list[1])
         /\ Len(SelectSeq(msg_list, IsReplyEntry)) = 1
    /\ SelectSeq(msg_list, NotReplyEntry) =
         ToList(SelectSeq(msg_seg_list, NotReplySegment))

\* C19: once a call of close() by the application has returned, no step
\* opens a transport, creates a listening task or sends an action request.
C19_ClosedIsTerminal ==
  [][userClosePc = "closed" =>
       /\ websocket' = "open" => websocket = "open"
       /\ listening_task' = "created" => listening_task = "created"
       /\ wire' = wire]_vars

\* C20: when the gateway has closed the transport and close() was not
\* called, the listening task ends: it is never found iterating the closed
\* connection again.
C20_ListeningEndsWithTransport ==
  (websocket \in {"closed", "broken"} /\ ~shutdown_event) =>
     listening_task # "spinning"

\* C21: callbacks never block reception.  Whenever the listening task is in
\* its loop and a frame is buffered, it can read and dispatch that frame,
\* whatever callbacks are unfinished or suspended.  A dispatch step leaves
\* the listening task in its loop and the existing tasks as they are, the
\* tasks it creates are not started in it, and a frame that carries the
\* echo of a call still waiting fulfils that call's future.
C21_SubscribersNeverBlock ==
  /\ []((listening_task = "running" /\ inbox # << >>) =>
          ENABLED ListenMessages)
  /\ [][Handled =>
          /\ listening_task' = "running"
          /\ Len(tasks') >= Len(tasks)
          /\ SubSeq(tasks', 1, Len(tasks)) = tasks
          /\ \A k \in (Len(tasks) + 1)..Len(tasks') : tasks'[k].pc = "start"
          /\ \A c \in Calls :
               (/\ callPc[c] = "waiting" /\ future[c].state = "pending"
                /\ dispatched'.echo = callEcho[c]) =>
                 future'[c] = [state |-> "done", result |-> dispatched']]_vars

\* a callback is suspended in send_action for the frame it answers, and the
\* listening task has since dispatched the response, which fulfilled the
\* callback's call
C21_Witness ==
  \E i \in 1..Len(tasks) :
    /\ tasks[i].func = "sending_callback" /\ tasks[i].pc = "send_wait"
    /\ callOwner[tasks[i].call] = "callback"
    /\ future[tasks[i].call].state = "done"
    /\ future[tasks[i].call].result.id > tasks[i].data.id
    /\ dispatched = future[tasks[i].call].result
    /\ listening_task = "running"

====
